---- MODULE Spec2Model ----
(***************************************************************************)
(* State-machine model of the file-upload REST API client (FileUploadApi)  *)
(* and of the service connection-string parser of azure-iot-sdk-node.      *)
(*                                                                         *)
(* JavaScript values are modelled as tagged records: t is the run-time     *)
(* type tag (what typeof / truthiness look at) and v the payload.          *)
(* Strings that the code only passes around are TLA+ strings; strings the  *)
(* code parses or produces (JSON bodies, connection strings) are token     *)
(* sequences that the model really parses and serialises.                  *)
(***************************************************************************)
EXTENDS Integers, Sequences, FiniteSets, TLC

VARIABLES
    client,     \* the FileUploadApi instance (its three fields), or NoClient
    ctorCall,   \* the constructor call made so far: arguments and what it threw
    calls,      \* the method calls made on the client, in call order
    requests,   \* the requests built on the transport, in buildRequest order
    doneLog,    \* per call: the invocations of the caller's done callback
    escaped,    \* per request: the exception that left the completion callback
    source,     \* connection string handed to parse (token sequence)
    parsed      \* outcome of parse(source)

vars == <<client, ctorCall, calls, requests, doneLog, escaped, source, parsed>>

---------------------------------------------------------------------------
(* Bounds *)

\* number of method calls made on one client
MaxCalls == 2
\* number of ';'-separated elements of a connection string
MaxFields == 4

---------------------------------------------------------------------------
(* JavaScript values *)

Undefined == [t |-> "undefined"]
Null == [t |-> "null"]
Str(s) == [t |-> "string", v |-> s]
Obj(n) == [t |-> "object", v |-> n]
Fn(n) == [t |-> "function", v |-> n]

\* !x of JavaScript for the kinds of value the model passes around
Falsy(x) == \/ x.t \in {"undefined", "null"}
            \/ (x.t = "string" /\ x.v = "")

NoClient == [t |-> "none"]
NoCall == [t |-> "none"]
DefaultHttpTransport == Obj("DefaultHttpTransport")

---------------------------------------------------------------------------
(* Inputs *)

DeviceIds == {Undefined, Str(""), Str("dev 1")}
Hostnames == {Undefined, Str(""), Str("hub1.example.net")}
Transports == {Undefined, Obj("mockHttp")}

BlobNames == {Str(""), Str("blob1")}
Auths == {Undefined, Str(""), Str("SharedAccessSignature sr=hub1"), Obj("x509cert")}
SasDones == {Fn("sasDone")}
CorrelationIds == {Undefined, Str("c/1")}
UploadResults ==
    {Undefined,
     [t |-> "object",
      props |-> << <<"isSuccess", [t |-> "boolean", v |-> "true"]>>,
                   <<"statusCode", [t |-> "number", v |-> "200"]>>,
                   <<"statusDescription", Str("ok")>> >>]}
NotifyDones == {Undefined, Fn("notifyDone")}

---------------------------------------------------------------------------
(* JSON text as token sequences *)

P(c) == [k |-> "punct", v |-> c]
S(s) == [k |-> "str", v |-> s]
L(x) == [k |-> "lit", v |-> x]
J(x) == [k |-> "junk", v |-> x]

\* the value a JSON literal token denotes
LitValue(x) ==
    CASE x = "null" -> Null
      [] x \in {"true", "false"} -> [t |-> "boolean", v |-> x]
      [] OTHER -> [t |-> "number", v |-> x]

\* the token JSON.stringify writes for a scalar value
ScalarToken(val) ==
    CASE val.t = "string" -> S(val.v)
      [] val.t = "null" -> L("null")
      [] OTHER -> L(val.v)

IsScalarToken(tok) == tok.k \in {"str", "lit"}
ScalarValue(tok) == IF tok.k = "str" THEN Str(tok.v) ELSE LitValue(tok.v)

RECURSIVE StringifyMembers(_, _, _)
\* members of an object from index i on; properties holding undefined are left out
StringifyMembers(props, i, first) ==
    IF i > Len(props) THEN <<>>
    ELSE IF props[i][2].t = "undefined" THEN StringifyMembers(props, i + 1, first)
    ELSE (IF first THEN <<>> ELSE <<P(",")>>)
         \o <<S(props[i][1]), P(":"), ScalarToken(props[i][2])>>
         \o StringifyMembers(props, i + 1, FALSE)

\* JSON.stringify of an object with scalar properties
JSONstringify(obj) == <<P("{")>> \o StringifyMembers(obj.props, 1, TRUE) \o <<P("}")>>

\* obj[key] = val on an ordered property list: overwrite in place or append
SetProp(props, key, val) ==
    IF \E j \in 1..Len(props) : props[j][1] = key
    THEN [j \in 1..Len(props) |-> IF props[j][1] = key THEN <<key, val>> ELSE props[j]]
    ELSE Append(props, <<key, val>>)

SyntaxError == [ok |-> FALSE]

RECURSIVE ParseMembers(_, _, _)
\* toks[i..] must read: "key" : scalar, then either ',' and more members or the final '}'
ParseMembers(toks, i, acc) ==
    IF i + 3 > Len(toks) THEN SyntaxError
    ELSE IF ~(toks[i].k = "str" /\ toks[i + 1] = P(":") /\ IsScalarToken(toks[i + 2]))
    THEN SyntaxError
    ELSE LET acc2 == SetProp(acc, toks[i].v, ScalarValue(toks[i + 2])) IN
         IF toks[i + 3] = P("}")
         THEN (IF i + 3 = Len(toks)
               THEN [ok |-> TRUE, value |-> [t |-> "object", props |-> acc2]]
               ELSE SyntaxError)
         ELSE IF toks[i + 3] = P(",") THEN ParseMembers(toks, i + 4, acc2)
         ELSE SyntaxError

\* JSON.parse on flat JSON texts: a scalar, or an object with scalar members
JSONparse(toks) ==
    IF Len(toks) = 0 THEN SyntaxError
    ELSE IF Len(toks) = 1
    THEN (IF IsScalarToken(toks[1])
          THEN [ok |-> TRUE, value |-> ScalarValue(toks[1])]
          ELSE SyntaxError)
    ELSE IF toks[1] # P("{") THEN SyntaxError
    ELSE IF Len(toks) = 2
    THEN (IF toks[2] = P("}")
          THEN [ok |-> TRUE, value |-> [t |-> "object", props |-> <<>>]]
          ELSE SyntaxError)
    ELSE ParseMembers(toks, 2, <<>>)

---------------------------------------------------------------------------
(* Transport: what a request can complete with *)

TransportError(id) == [t |-> "error", id |-> id]

SasBody1 ==
    <<P("{"), S("correlationId"), P(":"), S("c1"), P(","),
      S("sasToken"), P(":"), S("sig1"), P("}")>>
SasBody2 ==
    <<P("{"), S("correlationId"), P(":"), S("c2"), P(","),
      S("correlationId"), P(":"), S("c3"), P("}")>>
HtmlBody == <<J("<html>")>>
TruncatedBody == <<P("{"), S("correlationId"), P(":")>>

\* (err, body, response) triples handed to the completion callback
TransportOutcomes ==
    {[err |-> TransportError("ECONNRESET"), body |-> <<>>, response |-> Undefined],
     [err |-> TransportError("HTTP500"), body |-> HtmlBody, response |-> Obj("res500")],
     [err |-> Null, body |-> SasBody1, response |-> Obj("res200")],
     [err |-> Null, body |-> SasBody2, response |-> Obj("res200")],
     [err |-> Null, body |-> HtmlBody, response |-> Obj("res200")],
     [err |-> Null, body |-> TruncatedBody, response |-> Obj("res200")]}

Pending == [t |-> "pending"]

---------------------------------------------------------------------------
(* Constructor *)

\* variant: the hostname check is missing
CtorThrowsDeviceIdOnly(deviceId, hostname) ==
    IF Falsy(deviceId) THEN "ReferenceError" ELSE "none"

\* FileUploadApi.constructor: the two falsy checks, in order
CtorThrows(deviceId, hostname) ==
    IF Falsy(deviceId) THEN "ReferenceError"
    ELSE IF Falsy(hostname) THEN "ReferenceError"
    ELSE "none"

\* the instance the constructor leaves behind when it does not throw
NewClient(deviceId, hostname, httpTransport) ==
    [t |-> "FileUploadApi",
     deviceId |-> deviceId,
     hostname |-> hostname,
     http |-> IF Falsy(httpTransport) THEN DefaultHttpTransport ELSE httpTransport]

Construct ==
    /\ ctorCall = NoCall
    /\ \E deviceId \in DeviceIds, hostname \in Hostnames, httpTransport \in Transports :
        LET threw == CtorThrows(deviceId, hostname) IN
        /\ ctorCall' = [t |-> "new", deviceId |-> deviceId, hostname |-> hostname,
                        httpTransport |-> httpTransport, threw |-> threw]
        /\ client' = IF threw = "none"
                     THEN NewClient(deviceId, hostname, httpTransport)
                     ELSE NoClient
    /\ UNCHANGED <<calls, requests, doneLog, escaped, source, parsed>>

---------------------------------------------------------------------------
(* Request envelope *)

UserAgent == "packageJson.name/packageJson.version"

\* encodeURIComponent on the strings the model uses
EncodeURIComponent(s) ==
    CASE s = "dev 1" -> "dev%201"
      [] s = "c/1" -> "c%2F1"
      [] OTHER -> s

\* endpoint.devicePath(deviceId)
DevicePath(deviceId) == <<"/devices/", EncodeURIComponent(deviceId)>>

\* endpoint.versionQueryString()
VersionQueryString == <<"?api-version=">>

\* hostname.split('.')[0] on the hostnames the model uses
FirstLabel(s) == IF s = "hub1.example.net" THEN "hub1" ELSE s

\* if (typeof auth === 'string') headers.Authorization = auth;
WithAuthorization(headers, auth) ==
    IF auth.t = "string" THEN headers @@ ("Authorization" :> auth.v) ELSE headers

\* variant: the certificate options are passed whatever the type of auth
X509OptsAlways(auth) == auth

\* let x509Opts = null; if (typeof auth !== 'string') x509Opts = auth;
X509Opts(auth) == IF auth.t = "string" THEN Null ELSE auth

\* the request object after buildRequest(...), req.write(body), req.end()
BuildWriteEnd(c, path, headers, x509Opts, handler, callIdx, body) ==
    [transport |-> c.http,
     method |-> "POST",
     path |-> path,
     headers |-> headers,
     host |-> c.hostname,
     x509Opts |-> x509Opts,
     callback |-> [handler |-> handler, call |-> callIdx],
     log |-> <<[op |-> "write", body |-> body], [op |-> "end"]>>,
     response |-> Pending]

\* done(...args): a call of the caller's callback, or a TypeError when it is not a function
InvokeDone(done, args) ==
    IF done.t = "function"
    THEN [invoked |-> <<args>>, escaped |-> "none"]
    ELSE [invoked |-> <<>>, escaped |-> "TypeError"]

\* variant: done is not captured per call, the callback of the latest call is used
DoneTargetLatest(req) == Len(calls)

\* the call whose done the completion callback of req has captured
DoneTarget(req) == req.callback.call

---------------------------------------------------------------------------
(* getBlobSharedAccessSignature *)

\* variant: the auth check is missing
SasThrowsBlobNameOnly(blobName, auth) ==
    IF Falsy(blobName) THEN "ReferenceError" ELSE "none"

SasThrows(blobName, auth) ==
    IF Falsy(blobName) THEN "ReferenceError"
    ELSE IF Falsy(auth) THEN "ReferenceError"
    ELSE "none"

SasBody(blobName) == JSONstringify([t |-> "object", props |-> << <<"blobName", blobName>> >>])

SasPath(c) == DevicePath(c.deviceId.v) \o <<"/files">> \o VersionQueryString

\* body.length is the length of the body text; here the number of its tokens
SasHeaders(c, body, auth) ==
    WithAuthorization(
        ("Host" :> c.hostname.v)
        @@ ("Accept" :> "application/json")
        @@ ("Content-Type" :> "application/json")
        @@ ("Content-Length" :> Len(body))
        @@ ("User-Agent" :> UserAgent),
        auth)

\* variant: the decoded result is passed in the error position
SasCompletionResultFirst(done, err, body, response) ==
    IF ~Falsy(err)
    THEN InvokeDone(done, <<[t |-> err.t, id |-> err.id,
                             responseBody |-> body, response |-> response]>>)
    ELSE LET result == JSONparse(body) IN
         IF result.ok
         THEN InvokeDone(done, <<result.value>>)
         ELSE [invoked |-> <<>>, escaped |-> "SyntaxError"]

\* variant: JSON.parse is guarded and its failure is handed to done
SasCompletionGuarded(done, err, body, response) ==
    IF ~Falsy(err)
    THEN InvokeDone(done, <<[t |-> err.t, id |-> err.id,
                             responseBody |-> body, response |-> response]>>)
    ELSE LET result == JSONparse(body) IN
         IF result.ok
         THEN InvokeDone(done, <<Null, result.value>>)
         ELSE InvokeDone(done, <<[t |-> "error", id |-> "SyntaxError",
                                  responseBody |-> body, response |-> response]>>)

\* the completion callback (err, body, response) => { ... } of getBlobSharedAccessSignature
SasCompletion(done, err, body, response) ==
    IF ~Falsy(err)
    THEN InvokeDone(done, <<[t |-> err.t, id |-> err.id,
                             responseBody |-> body, response |-> response]>>)
    ELSE LET result == JSONparse(body) IN
         IF result.ok
         THEN InvokeDone(done, <<Null, result.value>>)
         ELSE [invoked |-> <<>>, escaped |-> "SyntaxError"]

GetBlobSharedAccessSignature ==
    /\ client # NoClient
    /\ Len(calls) < MaxCalls
    /\ \E blobName \in BlobNames, auth \in Auths, done \in SasDones :
        LET threw == SasThrows(blobName, auth)
            body == SasBody(blobName)
        IN
        /\ calls' = Append(calls, [op |-> "getBlobSharedAccessSignature",
                                   blobName |-> blobName, auth |-> auth,
                                   done |-> done, threw |-> threw])
        /\ doneLog' = Append(doneLog, <<>>)
        /\ IF threw = "none"
           THEN /\ requests' = Append(requests,
                        BuildWriteEnd(client, SasPath(client),
                                      SasHeaders(client, body, auth), X509Opts(auth),
                                      "getBlobSharedAccessSignature", Len(calls) + 1, body))
                /\ escaped' = Append(escaped, "none")
           ELSE UNCHANGED <<requests, escaped>>
    /\ UNCHANGED <<client, ctorCall, source, parsed>>

\* the transport completes a credential request and runs its completion callback
SasResponse ==
    \E r \in 1..Len(requests), o \in TransportOutcomes :
        /\ requests[r].callback.handler = "getBlobSharedAccessSignature"
        /\ requests[r].response = Pending
        /\ LET i == DoneTarget(requests[r])
               out == SasCompletion(calls[i].done, o.err, o.body, o.response)
           IN
           /\ requests' = [requests EXCEPT ![r].response =
                              [t |-> "done", err |-> o.err, body |-> o.body,
                               response |-> o.response]]
           /\ doneLog' = [doneLog EXCEPT ![i] = @ \o out.invoked]
           /\ escaped' = [escaped EXCEPT ![r] = out.escaped]
        /\ UNCHANGED <<client, ctorCall, calls, source, parsed>>

---------------------------------------------------------------------------
(* notifyUploadComplete *)

NotifyThrows(correlationId, auth, uploadResult) ==
    IF Falsy(correlationId) THEN "ReferenceError"
    ELSE IF Falsy(auth) THEN "ReferenceError"
    ELSE IF Falsy(uploadResult) THEN "ReferenceError"
    ELSE "none"

NotifyPath(c, correlationId) ==
    DevicePath(c.deviceId.v)
    \o <<"/files/notifications/", EncodeURIComponent(correlationId.v)>>
    \o VersionQueryString

NotifyHeaders(c, body, auth) ==
    WithAuthorization(
        ("Host" :> c.hostname.v)
        @@ ("User-Agent" :> UserAgent)
        @@ ("Content-Type" :> "application/json; charset=utf-8")
        @@ ("Content-Length" :> Len(body))
        @@ ("iothub-name" :> FirstLabel(c.hostname.v)),
        auth)

\* variant: the error is dropped and done is called without arguments
NotifyCompletionNoError(done, err) == InvokeDone(done, <<>>)

\* the completion callback (err) => { ... } of notifyUploadComplete
NotifyCompletion(done, err) ==
    IF ~Falsy(err)
    THEN InvokeDone(done, <<err>>)
    ELSE InvokeDone(done, <<>>)

NotifyUploadComplete ==
    /\ client # NoClient
    /\ Len(calls) < MaxCalls
    /\ \E correlationId \in CorrelationIds, auth \in Auths,
          uploadResult \in UploadResults, done \in NotifyDones :
        LET threw == NotifyThrows(correlationId, auth, uploadResult) IN
        /\ calls' = Append(calls, [op |-> "notifyUploadComplete",
                                   correlationId |-> correlationId, auth |-> auth,
                                   uploadResult |-> uploadResult,
                                   done |-> done, threw |-> threw])
        /\ doneLog' = Append(doneLog, <<>>)
        /\ IF threw = "none"
           THEN LET body == JSONstringify(uploadResult) IN
                /\ requests' = Append(requests,
                        BuildWriteEnd(client, NotifyPath(client, correlationId),
                                      NotifyHeaders(client, body, auth), X509Opts(auth),
                                      "notifyUploadComplete", Len(calls) + 1, body))
                /\ escaped' = Append(escaped, "none")
           ELSE UNCHANGED <<requests, escaped>>
    /\ UNCHANGED <<client, ctorCall, source, parsed>>

\* variant: a completed notification resets the instance's transport to the default one
NotifyResponseResetsTransport ==
    \E r \in 1..Len(requests), o \in TransportOutcomes :
        /\ requests[r].callback.handler = "notifyUploadComplete"
        /\ requests[r].response = Pending
        /\ LET i == DoneTarget(requests[r])
               out == NotifyCompletion(calls[i].done, o.err)
           IN
           /\ requests' = [requests EXCEPT ![r].response =
                              [t |-> "done", err |-> o.err, body |-> o.body,
                               response |-> o.response]]
           /\ doneLog' = [doneLog EXCEPT ![i] = @ \o out.invoked]
           /\ escaped' = [escaped EXCEPT ![r] = out.escaped]
        /\ client' = [client EXCEPT !.http = DefaultHttpTransport]
        /\ UNCHANGED <<ctorCall, calls, source, parsed>>

\* the transport completes a notification request and runs its completion callback
NotifyResponse ==
    \E r \in 1..Len(requests), o \in TransportOutcomes :
        /\ requests[r].callback.handler = "notifyUploadComplete"
        /\ requests[r].response = Pending
        /\ LET i == DoneTarget(requests[r])
               out == NotifyCompletion(calls[i].done, o.err)
           IN
           /\ requests' = [requests EXCEPT ![r].response =
                              [t |-> "done", err |-> o.err, body |-> o.body,
                               response |-> o.response]]
           /\ doneLog' = [doneLog EXCEPT ![i] = @ \o out.invoked]
           /\ escaped' = [escaped EXCEPT ![r] = out.escaped]
        /\ UNCHANGED <<client, ctorCall, calls, source, parsed>>

---------------------------------------------------------------------------
(* Connection strings: text as a sequence of chunks, ";" and "=" being the delimiters *)

Segments ==
    {<<"HostName", "=", "h">>,
     <<"hostname", "=", "h">>,
     <<"SharedAccessKeyName", "=", "n">>,
     <<"SharedAccessKey", "=", "k">>,
     <<"SharedAccessKey", "=", "k2", "=", "=">>,
     <<"DeviceId", "=", "d">>,
     <<"HostName">>}

RECURSIVE Join(_, _)
\* the segments from index i on, separated by ";"
Join(segs, i) ==
    IF i > Len(segs) THEN <<>>
    ELSE IF i = Len(segs) THEN segs[i]
    ELSE segs[i] \o <<";">> \o Join(segs, i + 1)

Sources == {Join(segs, 1) : segs \in UNION {[1..n -> Segments] : n \in 0..MaxFields}}

\* position of the first sep in text at or after i, or Len(text) + 1
RECURSIVE IndexOf(_, _, _)
IndexOf(text, sep, i) ==
    IF i > Len(text) THEN Len(text) + 1
    ELSE IF text[i] = sep THEN i
    ELSE IndexOf(text, sep, i + 1)

RECURSIVE Split(_, _, _)
\* source.split(sep), from position i on
Split(text, sep, i) ==
    LET j == IndexOf(text, sep, i) IN
    IF j > Len(text) THEN <<SubSeq(text, i, Len(text))>>
    ELSE <<SubSeq(text, i, j - 1)>> \o Split(text, sep, j + 1)

RECURSIVE AddElements(_, _, _)
\* each element with an "=" sets dict[name] = value; the others are skipped
AddElements(elements, i, dict) ==
    IF i > Len(elements) THEN dict
    ELSE LET elem == elements[i]
             pos == IndexOf(elem, "=", 1)
         IN
         IF pos > Len(elem) THEN AddElements(elements, i + 1, dict)
         ELSE AddElements(elements, i + 1,
                          SetProp(dict, SubSeq(elem, 1, pos - 1),
                                  SubSeq(elem, pos + 1, Len(elem))))

\* createDictionary(source, ';')
CreateDictionary(text) == AddElements(Split(text, ";", 1), 1, <<>>)

HasKey(dict, key) == \E j \in 1..Len(dict) : dict[j][1] = <<key>>

RECURSIVE FirstMissing(_, _, _)
\* the first required field the dictionary lacks, or "" when none is missing
FirstMissing(dict, requiredFields, i) ==
    IF i > Len(requiredFields) THEN ""
    ELSE IF ~HasKey(dict, requiredFields[i]) THEN requiredFields[i]
    ELSE FirstMissing(dict, requiredFields, i + 1)

\* azure-iot-common ConnectionString.parse(source, requiredFields)
ConnectionStringParse(text, requiredFields) ==
    LET dict == CreateDictionary(text)
        missing == FirstMissing(dict, requiredFields, 1)
    IN
    IF missing # ""
    THEN [t |-> "threw", error |-> "ArgumentError", missing |-> missing, value |-> <<>>]
    ELSE [t |-> "returned", error |-> "", missing |-> "", value |-> dict]

\* variant: SharedAccessKeyName is not required
RequiredFieldsNoKeyName == <<"HostName", "SharedAccessKey">>

\* the fields the service's parse requires
RequiredFields == <<"HostName", "SharedAccessKeyName", "SharedAccessKey">>

\* service connection_string.parse(source)
parse(text) == ConnectionStringParse(text, RequiredFields)

ParseCall ==
    /\ parsed.t = "none"
    /\ parsed' = parse(source)
    /\ UNCHANGED <<client, ctorCall, calls, requests, doneLog, escaped, source>>

---------------------------------------------------------------------------

Init ==
    /\ client = NoClient
    /\ ctorCall = NoCall
    /\ calls = <<>>
    /\ requests = <<>>
    /\ doneLog = <<>>
    /\ escaped = <<>>
    /\ source = <<>>
    /\ parsed = [t |-> "none"]

Next ==
    \/ Construct
    \/ GetBlobSharedAccessSignature
    \/ SasResponse
    \/ NotifyUploadComplete
    \/ NotifyResponse

Spec == Init /\ [][Next]_vars

\* parse applied to every connection string of the bounded input set
InitParse ==
    /\ client = NoClient
    /\ ctorCall = NoCall
    /\ calls = <<>>
    /\ requests = <<>>
    /\ doneLog = <<>>
    /\ escaped = <<>>
    /\ source \in Sources
    /\ parsed = [t |-> "none"]

NextParse == ParseCall

SpecParse == InitParse /\ [][NextParse]_vars

---------------------------------------------------------------------------
(* Vocabulary of the properties *)

\* an argument the caller left out or passed empty
Absent(x) == x = Undefined \/ x = Null \/ x = Str("")

IsSas(i) == calls[i].op = "getBlobSharedAccessSignature"
IsNotify(i) == calls[i].op = "notifyUploadComplete"

ArgsValid(i) ==
    IF IsSas(i)
    THEN ~Absent(calls[i].blobName) /\ ~Absent(calls[i].auth)
    ELSE ~Absent(calls[i].correlationId) /\ ~Absent(calls[i].auth)
         /\ ~Absent(calls[i].uploadResult)

\* the requests whose completion callback belongs to call i
ReqsOf(i) == {r \in 1..Len(requests) : requests[r].callback.call = i}

Completed(r) == requests[r].response # Pending
FailedReq(r) == Completed(r) /\ requests[r].response.err # Null
SucceededReq(r) == Completed(r) /\ requests[r].response.err = Null

HasCallback(i) == calls[i].done.t = "function"

WellFormedBodies == {SasBody1, SasBody2}
MalformedBodies == {<<>>, HtmlBody, TruncatedBody}

\* what the two well-formed response bodies denote, written out by hand
ExpectedDecoded(body) ==
    IF body = SasBody1
    THEN [t |-> "object",
          props |-> << <<"correlationId", Str("c1")>>, <<"sasToken", Str("sig1")>> >>]
    ELSE [t |-> "object", props |-> << <<"correlationId", Str("c3")>> >>]

\* the request body each call has to send, written out by hand
ExpectedBody(i) ==
    IF IsSas(i)
    THEN <<P("{"), S("blobName"), P(":"), S(calls[i].blobName.v), P("}")>>
    ELSE <<P("{"), S("isSuccess"), P(":"), L("true"), P(","),
           S("statusCode"), P(":"), L("200"), P(","),
           S("statusDescription"), P(":"), S("ok"), P("}")>>

\* the arguments call i's callback has to receive for the outcome of its own request r
ExpectedArgs(i, r) ==
    LET resp == requests[r].response IN
    IF resp.err # Null
    THEN (IF IsSas(i)
          THEN <<[t |-> "error", id |-> resp.err.id,
                  responseBody |-> resp.body, response |-> resp.response]>>
          ELSE <<resp.err>>)
    ELSE (IF IsSas(i) THEN <<Null, ExpectedDecoded(resp.body)>> ELSE <<>>)

---------------------------------------------------------------------------
(* Properties *)

\* C1: for every call made with valid arguments the caller's callback is invoked
\* exactly once when the transport has completed the call's request (whatever the
\* outcome, and whether or not notifyUploadComplete was given a callback), and
\* never more than once.
C1_CallbackExactlyOnce ==
    \A i \in 1..Len(calls) :
        ArgsValid(i) =>
            /\ Len(doneLog[i]) <= 1
            /\ \A r \in ReqsOf(i) : Completed(r) => Len(doneLog[i]) = 1

\* C2: a call with an empty or absent required argument throws a ReferenceError
\* synchronously; no request is built, written or ended for it and its callback is
\* never invoked.
C2_ArgumentErrorBeforeNetwork ==
    /\ \A i \in 1..Len(calls) :
        ~ArgsValid(i) =>
            /\ calls[i].threw = "ReferenceError"
            /\ ReqsOf(i) = {}
            /\ doneLog[i] = <<>>
    /\ Len(requests) = Cardinality({i \in 1..Len(calls) : ArgsValid(i)})

C2_Witness ==
    \E i, j \in 1..Len(calls) :
        /\ i < j
        /\ IsSas(i) /\ calls[i].auth = Undefined /\ calls[i].blobName = Str("blob1")
        /\ IsNotify(j) /\ calls[j].uploadResult = Undefined
        /\ calls[j].correlationId # Undefined /\ ~Absent(calls[j].auth)
        /\ calls[i].threw = "ReferenceError" /\ calls[j].threw = "ReferenceError"

\* C3: construction throws a ReferenceError exactly when the device identifier or
\* the hostname is empty or absent; after a throw there is no instance, otherwise
\* the instance holds the given device identifier, hostname and, when one was
\* supplied, the given transport.
C3_ConstructorContract ==
    ctorCall # NoCall =>
        /\ (ctorCall.threw = "ReferenceError")
               <=> (Absent(ctorCall.deviceId) \/ Absent(ctorCall.hostname))
        /\ ctorCall.threw \in {"none", "ReferenceError"}
        /\ ctorCall.threw = "ReferenceError" => client = NoClient
        /\ ctorCall.threw = "none" =>
            /\ client # NoClient
            /\ client.deviceId = ctorCall.deviceId
            /\ client.hostname = ctorCall.hostname
            /\ ~Absent(ctorCall.httpTransport) => client.http = ctorCall.httpTransport

C3_Witness ==
    /\ ctorCall # NoCall
    /\ ctorCall.threw = "none"
    /\ ctorCall.httpTransport = Obj("mockHttp")
    /\ client.http = Obj("mockHttp")
    /\ Len(calls) = MaxCalls

\* C4: when the transport completes a request with an error, the caller's callback
\* of that call (when the caller supplied one) is invoked with that error alone,
\* no result, and nothing is thrown: neither to the caller of the operation nor
\* out of the completion callback.
C4_TransportErrorToCallback ==
    \A r \in 1..Len(requests) :
        LET i == requests[r].callback.call IN
        (FailedReq(r) /\ HasCallback(i)) =>
            /\ Len(doneLog[i]) = 1
            /\ Len(doneLog[i][1]) = 1
            /\ doneLog[i][1][1].t = "error"
            /\ doneLog[i][1][1].id = requests[r].response.err.id
            /\ calls[i].threw = "none"
            /\ escaped[r] = "none"

C4_Witness ==
    \E r1, r2 \in 1..Len(requests) :
        /\ IsSas(requests[r1].callback.call)
        /\ IsNotify(requests[r2].callback.call)
        /\ HasCallback(requests[r2].callback.call)
        /\ FailedReq(r1) /\ FailedReq(r2)

\* C5: when the transport completes a credential request without error and with a
\* well-formed JSON body, the callback is invoked with a null error and the object
\* that body denotes.
C5_DecodedPayload ==
    \A r \in 1..Len(requests) :
        LET i == requests[r].callback.call IN
        (IsSas(i) /\ SucceededReq(r) /\ requests[r].response.body \in WellFormedBodies) =>
            doneLog[i] = << <<Null, ExpectedDecoded(requests[r].response.body)>> >>

C5_Witness ==
    \E r \in 1..Len(requests) :
        /\ IsSas(requests[r].callback.call)
        /\ SucceededReq(r)
        /\ requests[r].response.body = SasBody2
        /\ Len(doneLog[requests[r].callback.call]) = 1

\* C6: every request uses exactly one authentication channel: a string auth is the
\* Authorization header and no certificate options are passed; a certificate
\* object is passed as the certificate options and there is no Authorization header.
C6_OneAuthChannel ==
    \A r \in 1..Len(requests) :
        LET auth == calls[requests[r].callback.call].auth IN
        IF auth.t = "string"
        THEN /\ "Authorization" \in DOMAIN requests[r].headers
             /\ requests[r].headers["Authorization"] = auth.v
             /\ requests[r].x509Opts = Null
        ELSE /\ "Authorization" \notin DOMAIN requests[r].headers
             /\ requests[r].x509Opts = auth

C6_Witness ==
    \E r1, r2 \in 1..Len(requests) :
        /\ IsSas(requests[r1].callback.call)
        /\ IsNotify(requests[r2].callback.call)
        /\ calls[requests[r1].callback.call].auth = Obj("x509cert")
        /\ calls[requests[r2].callback.call].auth.t = "string"

\* an element "key=..." of the connection string starts at position p
ElementAt(text, key, p) ==
    /\ p \in 1..(Len(text) - 1)
    /\ text[p] = key
    /\ text[p + 1] = "="
    /\ (p = 1 \/ text[p - 1] = ";")

Contains(text, key) == \E p \in 1..Len(text) : ElementAt(text, key, p)

\* the text after "key=" up to the next ";", for the last element with that key
ValueOf(text, key) ==
    LET p == CHOOSE q \in 1..Len(text) :
                 /\ ElementAt(text, key, q)
                 /\ \A q2 \in 1..Len(text) : ElementAt(text, key, q2) => q2 <= q
        e == IF \E q \in (p + 2)..Len(text) : text[q] = ";"
             THEN (CHOOSE q \in (p + 2)..Len(text) :
                       /\ text[q] = ";"
                       /\ \A q2 \in (p + 2)..(q - 1) : text[q2] # ";") - 1
             ELSE Len(text)
    IN SubSeq(text, p + 2, e)

RequiredKeys == {"HostName", "SharedAccessKeyName", "SharedAccessKey"}

\* C7: parse returns the mapping of the source's keys to their values when the
\* source contains HostName, SharedAccessKeyName and SharedAccessKey (matched
\* case-sensitively, other keys allowed), and throws an ArgumentError when one of
\* the three is missing.
C7_ParseRequiresThreeFields ==
    parsed.t # "none" =>
        IF \A key \in RequiredKeys : Contains(source, key)
        THEN /\ parsed.t = "returned"
             /\ \A key \in RequiredKeys \cup {"DeviceId", "hostname"} :
                    Contains(source, key) <=>
                        \E j \in 1..Len(parsed.value) : parsed.value[j][1] = <<key>>
             /\ \A j \in 1..Len(parsed.value) :
                    /\ Len(parsed.value[j][1]) = 1
                    /\ Contains(source, parsed.value[j][1][1])
                    /\ parsed.value[j][2] = ValueOf(source, parsed.value[j][1][1])
        ELSE /\ parsed.t = "threw"
             /\ parsed.error = "ArgumentError"
             /\ parsed.missing \in RequiredKeys
             /\ ~Contains(source, parsed.missing)

C7_Witness ==
    /\ parsed.t = "returned"
    /\ Contains(source, "DeviceId")
    /\ Len(parsed.value) = 4

\* C8: once constructed, the instance's device ID, hostname and transport
\* reference are never changed by any step.
C8_ClientImmutable ==
    [][client # NoClient =>
          /\ client' # NoClient
          /\ client'.deviceId = client.deviceId
          /\ client'.hostname = client.hostname
          /\ client'.http = client.http]_vars

C8_Witness ==
    /\ client # NoClient
    /\ client.http = Obj("mockHttp")
    /\ \E i \in 1..Len(calls) : calls[i].threw = "ReferenceError"
    /\ \E r \in 1..Len(requests) :
           IsNotify(requests[r].callback.call) /\ Completed(r)

\* C9: when the transport completes a credential request without error but the
\* body is not valid JSON, a SyntaxError leaves the completion callback and the
\* caller's callback is not invoked with an error.
C9_MalformedBodyThrows ==
    \A r \in 1..Len(requests) :
        LET i == requests[r].callback.call IN
        (IsSas(i) /\ SucceededReq(r) /\ requests[r].response.body \in MalformedBodies) =>
            /\ escaped[r] = "SyntaxError"
            /\ \A k \in 1..Len(doneLog[i]) :
                   ~(Len(doneLog[i][k]) >= 1 /\ doneLog[i][k][1].t = "error")

C9_Witness ==
    \E r \in 1..Len(requests) :
        /\ IsSas(requests[r].callback.call)
        /\ SucceededReq(r)
        /\ requests[r].response.body = TruncatedBody
        /\ escaped[r] = "SyntaxError"

\* C10: calls made on one client do not interfere: every call with valid arguments
\* has exactly one request of its own, a POST that was written its own serialized
\* body once and then ended; and whatever the order in which the transport
\* completes outstanding requests, a call's callback has received nothing while
\* its own request is pending and the outcome of its own request afterwards.
C10_CallsIndependent ==
    /\ Len(requests) = Cardinality({i \in 1..Len(calls) : ArgsValid(i)})
    /\ \A i \in 1..Len(calls) :
        ArgsValid(i) =>
            /\ Cardinality(ReqsOf(i)) = 1
            /\ \A r \in ReqsOf(i) :
                /\ requests[r].method = "POST"
                /\ requests[r].transport = client.http
                /\ requests[r].log = <<[op |-> "write", body |-> ExpectedBody(i)],
                                       [op |-> "end"]>>
                /\ ~Completed(r) => doneLog[i] = <<>>
                /\ (/\ Completed(r)
                    /\ HasCallback(i)
                    /\ ~(IsSas(i) /\ SucceededReq(r)
                         /\ requests[r].response.body \in MalformedBodies))
                       => doneLog[i] = <<ExpectedArgs(i, r)>>

C10_Witness ==
    /\ Len(requests) >= 2
    /\ IsSas(requests[1].callback.call)
    /\ IsNotify(requests[2].callback.call)
    /\ HasCallback(requests[2].callback.call)
    /\ ~Completed(1)
    /\ FailedReq(2)
    /\ doneLog[requests[1].callback.call] = <<>>
    /\ Len(doneLog[requests[2].callback.call]) = 1

====
